---- MODULE Spec2Model ----
(***************************************************************************)
(* A model of the roc icon build pipeline (build.mjs): the entry point     *)
(* main(), its six stages, the watch trigger, and the component codegen.   *)
(*                                                                         *)
(* The specifications of the module:                                       *)
(*   Spec     the process: main() statement by statement, then the watch   *)
(*            trigger (file-system events, the debounce timer, rebuilds);  *)
(*   SpecGen  the codegen of one component (pure functions applied to      *)
(*            bounded inputs) and its rendering with caller props;         *)
(*   SpecOut  the content of the barrels, the sprite and the metadata      *)
(*            document written by two full runs on one source tree.        *)
(*   SpecLive the watch trigger under the scheduling of the event loop;    *)
(*   SpecInner getSvgInner applied to what the optimizer may return;       *)
(*   SpecPage the demo page's detail panel and the session history;        *)
(*   SpecRuns successive full runs on a source tree and an ontology that   *)
(*            are edited between the runs.                                 *)
(***************************************************************************)
EXTENDS Integers, Sequences, FiniteSets, TLC

\* ------------------------------------------------------------------ bounds
\* Most icon files in the source tree.
MaxIcons == 3
\* Most icon files in the source tree of a watch-mode run.
MaxWatchIcons == 1
\* Most file-system events waiting for the JS thread.
MaxPending == 1
\* Clock steps per debounce delay.
TicksPerDelay == 2
\* Events counted in one burst.
MaxBurst == 2
\* Longest inner content (attributes) of a generated component.
MaxAttrs == 2
\* Most icon files in the source tree of the two compared runs.
MaxOutIcons == 3
\* Most session-history entries the user's clicks build up.
MaxHistory == 5
\* Most icon files in the source tree of the successive runs.
MaxRunIcons == 2
\* Most successive runs.
MaxRuns == 2

\* --------------------------------------------------------------- constants
STYLES == <<"outline", "solid", "duotone", "sharp">>

Flags == {"--svg", "--react", "--svelte", "--sprite", "--demo", "--watch"}

\* The debounce delay of both watchers, in ms.
DELAY == 200

\* ----------------------------------------------------------------- helpers
Range(s) == {s[i] : i \in DOMAIN s}

Min(a, b) == IF a < b THEN a ELSE b

Max(a, b) == IF a > b THEN a ELSE b

\* Characters are one-letter strings; a name is a sequence of characters.
Lowers == <<"a", "b", "c", "d", "e", "f", "g", "h", "i", "j", "k", "l", "m",
            "n", "o", "p", "q", "r", "s", "t", "u", "v", "w", "x", "y", "z">>

Uppers == <<"A", "B", "C", "D", "E", "F", "G", "H", "I", "J", "K", "L", "M",
            "N", "O", "P", "Q", "R", "S", "T", "U", "V", "W", "X", "Y", "Z">>

Digits == <<"0", "1", "2", "3", "4", "5", "6", "7", "8", "9">>

IndexOf(s, c) == CHOOSE i \in DOMAIN s : s[i] = c

\* \w of a JS regular expression: [A-Za-z0-9_]
WordChars == Range(Lowers) \cup Range(Uppers) \cup Range(Digits) \cup {"_"}

IsWord(c) == c \in WordChars

\* toUpperCase() of the lower-case letters.
UpperOf == [c \in Range(Lowers) |-> Uppers[IndexOf(Lowers, c)]]

\* c.toUpperCase()
Upper(c) == IF c \in DOMAIN UpperOf THEN UpperOf[c] ELSE c

RECURSIVE PascalFrom(_, _)
\* str.replace(/(^|-)(\w)/g, (_, _sep, c) => c.toUpperCase()), scanning from i.
PascalFrom(str, i) ==
  IF i > Len(str) THEN <<>>
  ELSE IF i = 1 /\ IsWord(str[1])
    THEN <<Upper(str[1])>> \o PascalFrom(str, 2)
  ELSE IF str[i] = "-" /\ i + 1 <= Len(str) /\ IsWord(str[i + 1])
    THEN <<Upper(str[i + 1])>> \o PascalFrom(str, i + 2)
  ELSE <<str[i]>> \o PascalFrom(str, i + 1)

toPascalCase(str) == PascalFrom(str, 1)

\* ------------------------------------------------------------ source tree
\* The files the source tree may hold: src/svg/{style}/{name}.svg with raw
\* content that the optimizer accepts (valid) or rejects.
SourceFiles ==
  { [style |-> "outline", name |-> <<"a", "1">>,      valid |-> TRUE],
    [style |-> "outline", name |-> <<"a", "-", "1">>, valid |-> TRUE],
    [style |-> "outline", name |-> <<"b">>,           valid |-> FALSE],
    [style |-> "solid",   name |-> <<"a", "1">>,      valid |-> TRUE] }

Trees == {t \in SUBSET SourceFiles : Cardinality(t) <= MaxIcons}

\* All orders in which readdirSync may list the files of a set.
Orders(S) ==
  {s \in [1..Cardinality(S) -> S] : \A i, j \in 1..Cardinality(S) : i # j => s[i] # s[j]}

StyleIndex(style) == CHOOSE i \in DOMAIN STYLES : STYLES[i] = style

\* readSvgs(): style directories in the order of STYLES, the files of one
\* directory in whatever order the file system lists them.
ReadOrders(t) ==
  {s \in Orders(t) :
     \A i, j \in DOMAIN s : i < j => StyleIndex(s[i].style) <= StyleIndex(s[j].style)}

\* ------------------------------------------------------------------- state
VARIABLES
  args,        \* process.argv.slice(2), a set of flags
  tree,        \* the files under src/svg
  ontFile,     \* src/icons.json: "absent" or "present"
  pc,          \* the statement of main() about to run, or the process state
  rebuild,     \* main()'s parameter
  running,     \* main() invocations in progress
  ran,         \* the stages the current main() invocation has run, in order
  icons,       \* stageSvg's list of raw records (readSvgs' result)
  manifest,    \* main()'s local manifest: [defined, items]
  skipped,     \* the icons stageSvg warned about and skipped
  ioFailed,    \* an output write of the last stageSvg failed (and was caught)
  ontology,    \* main()'s local ontology: "unset", "empty" or "loaded"
  dist,        \* the output tree: path -> name of the icon it was written from
  watching,    \* both fs.watch watchers are installed
  timers,      \* the armed timeouts: [left, isWatchTimer]
  pending,     \* file-system events not yet delivered to their callback
  sinceLast,   \* ms since the last change event was handled (capped)
  burstLen,    \* events of the current burst (capped)
  burstBuilds, \* rebuilds started for the current burst
  demoDirty,   \* demo/src changed since the demo page was last generated
  gen,         \* the component codegen under check (SpecGen)
  outs,        \* the outputs of two successive full runs (SpecOut)
  xml,         \* one optimizer result and the inner content cut from it (SpecInner)
  page,        \* the demo page and the session history of its tab (SpecPage)
  runs         \* successive full runs on a source tree that is edited (SpecRuns)

mainVars == <<args, tree, ontFile, pc, rebuild, running, ran, icons, manifest,
              skipped, ioFailed, ontology, dist, watching, timers, pending,
              sinceLast, burstLen, burstBuilds, demoDirty>>

vars == <<mainVars, gen, outs, xml, page, runs>>

\* ------------------------------------------------------- argument parsing
flag(f) == f \in args

runAll == ~(\E f \in Flags : f \in args)

\* needsSvg without the runAll disjunct.
needsSvgFlagsOnly ==
  flag("--svg") \/ flag("--react") \/ flag("--svelte") \/ flag("--sprite") \/ rebuild

needsSvg ==
  runAll \/ flag("--svg") \/ flag("--react") \/ flag("--svelte") \/ flag("--sprite") \/ rebuild

Undefined == [defined |-> FALSE, items |-> <<>>]

Defined(items) == [defined |-> TRUE, items |-> items]

\* ------------------------------------------------------------ output tree
Path(kind, style, base) == [kind |-> kind, style |-> style, base |-> base]

\* fs.writeFileSync(path, content): creates the file or replaces its content.
WriteFile(d, path, content) ==
  [p \in DOMAIN d \cup {path} |-> IF p = path THEN content ELSE d[p]]

EmptyDir == [p \in {} |-> <<>>]

\* --------------------------------------------------- Stage 1, the optimizer
Identity(icon) == [style |-> icon.style, name |-> icon.name]

\* One pass of stageSvg's for loop over icons[i..]: optimize() throws for an
\* invalid raw document, ensureDir/writeFileSync throw for i in wfail; the
\* catch block warns and goes on to the next icon.
RECURSIVE SvgLoopAbort(_, _, _, _)
\* As SvgLoop, with the try/catch around the whole loop: the first failure ends it.
SvgLoopAbort(list, i, wfail, acc) ==
  IF i > Len(list) THEN acc
  ELSE IF ~list[i].valid \/ i \in wfail
    THEN [acc EXCEPT !.skipped = @ \cup {Identity(list[i])}]
  ELSE SvgLoopAbort(list, i + 1, wfail,
                    [acc EXCEPT
                       !.files = WriteFile(@, Path("svg", list[i].style, list[i].name), list[i].name),
                       !.manifest = Append(@, Identity(list[i]))])

RECURSIVE SvgLoop(_, _, _, _)
SvgLoop(list, i, wfail, acc) ==
  IF i > Len(list) THEN acc
  ELSE IF ~list[i].valid \/ i \in wfail
    THEN SvgLoop(list, i + 1, wfail,
                 [acc EXCEPT !.skipped = @ \cup {Identity(list[i])}])
  ELSE SvgLoop(list, i + 1, wfail,
               [acc EXCEPT
                  !.files = WriteFile(@, Path("svg", list[i].style, list[i].name), list[i].name),
                  !.manifest = Append(@, Identity(list[i]))])

stageSvg(list, wfail, d) ==
  SvgLoop(list, 1, wfail, [manifest |-> <<>>, files |-> d, skipped |-> {}])

\* The writes that may fail in one run of stageSvg: none, or the one of icon i.
WriteFailures(list) == {{}} \cup {{i} : i \in {j \in DOMAIN list : list[j].valid}}

\* ------------------------------------------- Stages 2 and 3, the components
\* path.join(styleDir, `${pascalName}.jsx`) / `${pascalName}.svelte`
ComponentPath(fw, rec) == Path(fw, rec.style, toPascalCase(rec.name))

\* The for loop over the manifest: one component file written per record.
RECURSIVE ComponentLoop(_, _, _, _)
ComponentLoop(items, i, fw, d) ==
  IF i > Len(items) THEN d
  ELSE ComponentLoop(items, i + 1, fw, WriteFile(d, ComponentPath(fw, items[i]), items[i].name))

StylesOf(items) == {items[i].style : i \in DOMAIN items}

\* The per-style barrels {fw}/{style}/index.js, one per style of the manifest.
RECURSIVE WriteBarrels(_, _, _)
WriteBarrels(styles, fw, d) ==
  IF styles = {} THEN d
  ELSE LET st == CHOOSE x \in styles : TRUE
       IN WriteBarrels(styles \ {st}, fw, WriteFile(d, Path(fw \o "-barrel", st, <<>>), <<>>))

stageReact(items, d) ==
  LET comps   == ComponentLoop(items, 1, "react", d)
      barrels == WriteBarrels(StylesOf(items), "react", comps)
      root    == WriteFile(barrels, Path("react-root", "", <<>>), <<>>)
  IN WriteFile(root, Path("react-dts", "", <<>>), <<>>)

stageSvelte(items, d) ==
  LET comps   == ComponentLoop(items, 1, "svelte", d)
      barrels == WriteBarrels(StylesOf(items), "svelte", comps)
  IN WriteFile(barrels, Path("svelte-root", "", <<>>), <<>>)

\* ------------------------------------------------- Stages 4, 5 and 6
stageSprite(items, d) == WriteFile(d, Path("sprite", "", <<>>), <<>>)

stageMetadata(items, d) == WriteFile(d, Path("metadata", "", <<>>), <<>>)

stageDemo(items, d) == WriteFile(d, Path("demo", "", <<>>), <<>>)

\* -------------------------------------------------------------------- main
watchVars == <<watching, timers, pending, sinceLast, burstLen, burstBuilds>>

envVars == <<args, tree, ontFile>>

svgVars == <<icons, manifest, skipped, ioFailed>>

\* A consumer stage called with main()'s manifest: it iterates the manifest (a
\* TypeError when it is undefined) and writes its files (fatal when a write
\* fails); an exception leaves main() and ends the process.
CallStage(name, ok, d, next) ==
  /\ ran' = Append(ran, name)
  /\ IF manifest.defined /\ ok
       THEN pc' = next /\ dist' = d
       ELSE pc' = "crashed" /\ dist' = dist

SkipStage(next) == pc' = next /\ UNCHANGED <<ran, dist>>

\* const ontology = loadOntology();
MainOntology ==
  /\ pc = "ontology"
  /\ ontology' = IF ontFile = "absent" THEN "empty" ELSE "loaded"
  /\ ran' = Append(ran, "ontology")
  /\ pc' = "svg"
  /\ UNCHANGED <<envVars, rebuild, running, svgVars, dist, watchVars, demoDirty, gen, outs, xml, page, runs>>

\* let manifest; if (needsSvg) manifest = stageSvg();
MainSvg ==
  /\ pc = "svg"
  /\ IF needsSvg
       THEN \E list \in ReadOrders(tree) : \E wfail \in WriteFailures(list) :
              LET r == stageSvg(list, wfail, dist)
              IN /\ icons' = list
                 /\ manifest' = Defined(r.manifest)
                 /\ skipped' = r.skipped
                 /\ ioFailed' = (wfail # {})
                 /\ dist' = r.files
                 /\ ran' = Append(ran, "svg")
       ELSE UNCHANGED <<svgVars, dist, ran>>
  /\ pc' = "react"
  /\ UNCHANGED <<envVars, rebuild, running, ontology, watchVars, demoDirty, gen, outs, xml, page, runs>>

\* if (runAll || flag('--react')) stageReact(manifest);
MainReact ==
  /\ pc = "react"
  /\ IF runAll \/ flag("--react")
       THEN \E ok \in BOOLEAN : CallStage("react", ok, stageReact(manifest.items, dist), "svelte")
       ELSE SkipStage("svelte")
  /\ UNCHANGED <<envVars, rebuild, running, svgVars, ontology, watchVars, demoDirty, gen, outs, xml, page, runs>>

\* if (runAll || flag('--svelte')) stageSvelte(manifest);
MainSvelte ==
  /\ pc = "svelte"
  /\ IF runAll \/ flag("--svelte")
       THEN \E ok \in BOOLEAN : CallStage("svelte", ok, stageSvelte(manifest.items, dist), "sprite")
       ELSE SkipStage("sprite")
  /\ UNCHANGED <<envVars, rebuild, running, svgVars, ontology, watchVars, demoDirty, gen, outs, xml, page, runs>>

\* if (runAll || flag('--sprite')) stageSprite(manifest);
MainSprite ==
  /\ pc = "sprite"
  /\ IF runAll \/ flag("--sprite")
       THEN \E ok \in BOOLEAN : CallStage("sprite", ok, stageSprite(manifest.items, dist), "metadata")
       ELSE SkipStage("metadata")
  /\ UNCHANGED <<envVars, rebuild, running, svgVars, ontology, watchVars, demoDirty, gen, outs, xml, page, runs>>

\* if (manifest) stageMetadata(manifest, ontology);
MainMetadata ==
  /\ pc = "metadata"
  /\ IF manifest.defined
       THEN \E ok \in BOOLEAN : CallStage("metadata", ok, stageMetadata(manifest.items, dist), "demo")
       ELSE SkipStage("demo")
  /\ UNCHANGED <<envVars, rebuild, running, svgVars, ontology, watchVars, demoDirty, gen, outs, xml, page, runs>>

\* if (runAll || flag('--demo')) stageDemo(manifest, ontology);
MainDemo ==
  /\ pc = "demo"
  /\ IF runAll \/ flag("--demo")
       THEN \E ok \in BOOLEAN :
              /\ CallStage("demo", ok, stageDemo(manifest.items, dist), "return")
              /\ demoDirty' = IF manifest.defined /\ ok THEN FALSE ELSE demoDirty
       ELSE SkipStage("return") /\ UNCHANGED demoDirty
  /\ UNCHANGED <<envVars, rebuild, running, svgVars, ontology, watchVars, gen, outs, xml, page, runs>>

\* main() returns: to the module's last line after the first call, to the
\* event loop after a rebuild.
MainReturn ==
  /\ pc = "return"
  /\ running' = running - 1
  /\ pc' = IF rebuild THEN "idle" ELSE "watch"
  /\ UNCHANGED <<envVars, rebuild, ran, svgVars, ontology, dist, watchVars, demoDirty, gen, outs, xml, page, runs>>

\* if (flag('--watch')) stageWatch();  fs.watch throws when its path does not
\* exist; without watchers the process ends.
StageWatch ==
  /\ pc = "watch"
  /\ IF flag("--watch")
       THEN IF ontFile = "absent"
              THEN pc' = "crashed" /\ UNCHANGED watching
              ELSE pc' = "idle" /\ watching' = TRUE
       ELSE pc' = "exit" /\ UNCHANGED watching
  /\ UNCHANGED <<envVars, rebuild, running, ran, svgVars, ontology, dist, timers,
                 pending, sinceLast, burstLen, burstBuilds, demoDirty, gen, outs, xml, page, runs>>

\* -------------------------------------------------------------- watch mode
TickMs == DELAY \div TicksPerDelay

\* sinceLast is tracked up to the delay: longer gaps all end a burst.
SinceCap == DELAY

\* main() and the watch callbacks are synchronous functions on the one JS
\* thread: a callback starts only when nothing else is running.
\* As if main() were asynchronous and gave the thread back between its stages.
JsIdleAsync == pc \notin {"crashed", "exit", "watch"}

JsIdle == pc = "idle"

Alive == pc \notin {"crashed", "exit"}

\* A callback that does not clear the previous timeout.
clearTimeoutNoop(ts) == ts

\* clearTimeout(watchTimer): disarms the timeout watchTimer refers to, if armed.
clearTimeout(ts) == SelectSeq(ts, LAMBDA t : ~t.isWatchTimer)

\* watchTimer = setTimeout(() => { ...; main(true); }, 200);
setWatchTimer(ts) ==
  Append([i \in DOMAIN ts |-> [ts[i] EXCEPT !.isWatchTimer = FALSE]],
         [left |-> DELAY, isWatchTimer |-> TRUE])

\* As if the callback only cleared the pending timeout.
OnChangeClearOnly(ts) == clearTimeout(ts)

\* The body of both fs.watch callbacks after the .svg filter.
OnChange(ts) == setWatchTimer(clearTimeout(ts))

Due(ts) == {i \in DOMAIN ts : ts[i].left = 0}

Remove(ts, i) == [j \in 1..(Len(ts) - 1) |-> IF j < i THEN ts[j] ELSE ts[j + 1]]

\* A file under src/svg changes: the recursive watcher's event is queued with
\* its filename (.svg or another file).
FsSvgChange ==
  /\ watching /\ Alive
  /\ Len(pending) < MaxPending
  /\ pending' = Append(pending, "svg")
  /\ UNCHANGED <<envVars, pc, rebuild, running, ran, svgVars, ontology, dist, watching,
                 timers, sinceLast, burstLen, burstBuilds, demoDirty, gen, outs, xml, page, runs>>

FsOtherChange ==
  /\ watching /\ Alive
  /\ Len(pending) < MaxPending
  /\ pending' = Append(pending, "other")
  /\ UNCHANGED <<envVars, pc, rebuild, running, ran, svgVars, ontology, dist, watching,
                 timers, sinceLast, burstLen, burstBuilds, demoDirty, gen, outs, xml, page, runs>>

\* src/icons.json changes: the second watcher's event is queued.
FsOntChange ==
  /\ watching /\ Alive
  /\ Len(pending) < MaxPending
  /\ pending' = Append(pending, "ont")
  /\ UNCHANGED <<envVars, pc, rebuild, running, ran, svgVars, ontology, dist, watching,
                 timers, sinceLast, burstLen, burstBuilds, demoDirty, gen, outs, xml, page, runs>>

\* A file under demo/src changes: stageWatch installs no watcher there, so no
\* event is queued and no callback runs.
DemoChange ==
  /\ watching /\ Alive
  /\ ~demoDirty
  /\ demoDirty' = TRUE
  /\ UNCHANGED <<envVars, pc, rebuild, running, ran, svgVars, ontology, dist, watchVars, gen, outs, xml, page, runs>>

\* The event loop runs the callback of the oldest queued event.
Deliver ==
  /\ JsIdle
  /\ pending # <<>>
  /\ pending' = Tail(pending)
  /\ IF Head(pending) = "other"
       THEN UNCHANGED <<timers, sinceLast, burstLen, burstBuilds>>
       ELSE /\ timers' = OnChange(timers)
            /\ sinceLast' = 0
            /\ burstLen' = IF sinceLast < DELAY THEN Min(burstLen + 1, MaxBurst) ELSE 1
            /\ burstBuilds' = IF sinceLast < DELAY THEN burstBuilds ELSE 0
  /\ UNCHANGED <<envVars, pc, rebuild, running, ran, svgVars, ontology, dist, watching,
                 demoDirty, gen, outs, xml, page, runs>>

\* A due timeout's callback: main(true).
TimerFire ==
  /\ JsIdle
  /\ \E i \in Due(timers) : timers' = Remove(timers, i)
  /\ pc' = "ontology"
  /\ rebuild' = TRUE
  /\ running' = running + 1
  /\ ran' = <<>>
  /\ manifest' = Undefined
  /\ ontology' = "unset"
  /\ burstBuilds' = burstBuilds + 1
  /\ UNCHANGED <<envVars, icons, skipped, ioFailed, dist, watching, pending, sinceLast,
                 burstLen, demoDirty, gen, outs, xml, page, runs>>

\* Time passes; a due timeout runs before more time passes on an idle thread.
Tick ==
  /\ watching /\ Alive
  /\ ~(JsIdle /\ Due(timers) # {})
  /\ timers' = [i \in DOMAIN timers |-> [timers[i] EXCEPT !.left = Max(0, @ - TickMs)]]
  /\ sinceLast' = Min(SinceCap, sinceLast + TickMs)
  /\ UNCHANGED <<envVars, pc, rebuild, running, ran, svgVars, ontology, dist, watching,
                 pending, burstLen, burstBuilds, demoDirty, gen, outs, xml, page, runs>>

\* ----------------------------------------------------------- specification
GenOff == [phase |-> "off"]

OutOff == [pc |-> "off"]

XmlOff == [phase |-> "off"]

PageOff == [phase |-> "off"]

RunsOff == [pc |-> "off"]

Init ==
  /\ args \in SUBSET Flags
  /\ tree \in Trees
  /\ flag("--watch") => Cardinality(tree) <= MaxWatchIcons
  /\ ontFile \in {"absent", "present"}
  /\ pc = "ontology"
  /\ rebuild = FALSE
  /\ running = 1
  /\ ran = <<>>
  /\ icons = <<>>
  /\ manifest = Undefined
  /\ skipped = {}
  /\ ioFailed = FALSE
  /\ ontology = "unset"
  /\ dist = EmptyDir
  /\ watching = FALSE
  /\ timers = <<>>
  /\ pending = <<>>
  /\ sinceLast = SinceCap
  /\ burstLen = 0
  /\ burstBuilds = 0
  /\ demoDirty = FALSE
  /\ gen = GenOff
  /\ outs = OutOff
  /\ xml = XmlOff
  /\ page = PageOff
  /\ runs = RunsOff

Next ==
  \/ MainOntology
  \/ MainSvg
  \/ MainReact
  \/ MainSvelte
  \/ MainSprite
  \/ MainMetadata
  \/ MainDemo
  \/ MainReturn
  \/ StageWatch
  \/ FsSvgChange
  \/ FsOtherChange
  \/ FsOntChange
  \/ DemoChange
  \/ Deliver
  \/ TimerFire
  \/ Tick

Spec == Init /\ [][Next]_vars

\* ------------------------------------------------- watch mode, liveness
\* The watch runs: node build.mjs --watch, alone or with --svg.
InitLive ==
  /\ Init
  /\ args \in {{"--watch"}, {"--watch", "--svg"}}

\* A statement of main() or of the module's last line.
MainStep ==
  \/ MainOntology
  \/ MainSvg
  \/ MainReact
  \/ MainSvelte
  \/ MainSprite
  \/ MainMetadata
  \/ MainDemo
  \/ MainReturn
  \/ StageWatch

\* The JS thread runs its synchronous code to the end, the event loop runs a
\* queued callback and a due timeout when the thread is idle, and time passes.
\* Nothing is assumed of the file system: changes may come or not.
SpecLive ==
  /\ InitLive
  /\ [][Next]_vars
  /\ WF_vars(MainStep)
  /\ WF_vars(Deliver)
  /\ WF_vars(TimerFire)
  /\ WF_vars(Tick)

\* ------------------------------------------------- component codegen (SpecGen)
\* Inner content is the sequence of its attributes, name="value", in document
\* order; numbers are written as the component source writes them.
AttrNames == {"stroke-width", "stroke-linecap", "fill-rule", "stroke-dasharray"}

AttrValues == {"1.5", "2"}

Attrs == [name : AttrNames, value : AttrValues]

RECURSIVE SeqsUpTo(_, _)
SeqsUpTo(S, n) ==
  IF n = 0 THEN {<<>>}
  ELSE LET shorter == SeqsUpTo(S, n - 1)
       IN shorter \cup {Append(q, x) : q \in {r \in shorter : Len(r) = n - 1}, x \in S}

Inners == SeqsUpTo(Attrs, MaxAttrs)

\* The props a caller may pass: size and strokeWidth, each given or not.
NoProp == [given |-> FALSE, v |-> 0, text |-> ""]

SizeProps == {NoProp} \cup {[given |-> TRUE, v |-> n, text |-> ""] : n \in {12, 16, 17, 24}}

StrokeProps == {NoProp} \cup {[given |-> TRUE, v |-> 0, text |-> t] : t \in {"0", "2"}}

\* STROKED_STYLES without sharp.
STROKED_STYLES_RoundOnly == {"outline", "duotone"}

STROKED_STYLES == {"outline", "duotone", "sharp"}

\* jsx.replace(/stroke-width="([^"]*)"/g, ...): the literal kept for solid,
\* {sw} for the other styles.
ReplaceStrokeWidth(inner, isSolid) ==
  [i \in DOMAIN inner |->
     IF inner[i].name = "stroke-width"
       THEN [name |-> "strokeWidth", value |-> IF isSolid THEN inner[i].value ELSE "{sw}"]
       ELSE inner[i]]

\* jsx.replace(/from=/g, 'to=')
RenameAttr(inner, from, to) ==
  [i \in DOMAIN inner |-> IF inner[i].name = from THEN [inner[i] EXCEPT !.name = to] ELSE inner[i]]

toJsxAttributes(innerSvg, isSolid) ==
  LET j0 == ReplaceStrokeWidth(innerSvg, isSolid)
      j1 == RenameAttr(j0, "stroke-linecap", "strokeLinecap")
      j2 == RenameAttr(j1, "stroke-linejoin", "strokeLinejoin")
      j3 == RenameAttr(j2, "stroke-miterlimit", "strokeMiterlimit")
      j4 == RenameAttr(j3, "fill-rule", "fillRule")
  IN RenameAttr(j4, "clip-rule", "clipRule")

\* The React component stageReact writes for a record: the props its function
\* destructures, whether it computes sw, and its embedded content.
reactComponent(style, innerSvg) ==
  LET isSolid == style = "solid"
  IN [params   |-> IF isSolid THEN {"size", "className"} ELSE {"size", "strokeWidth", "className"},
      computes |-> ~isSolid,
      body     |-> toJsxAttributes(innerSvg, isSolid)]

\* svgInner.replace(/stroke-width="[^"]*"/g, 'stroke-width="{sw}"') for stroked styles.
svelteInner(style, innerSvg) ==
  IF style \in STROKED_STYLES
    THEN [i \in DOMAIN innerSvg |->
            IF innerSvg[i].name = "stroke-width"
              THEN [innerSvg[i] EXCEPT !.value = "{sw}"]
              ELSE innerSvg[i]]
    ELSE innerSvg

\* The Svelte component stageSvelte writes for a record.
svelteComponent(style, innerSvg) ==
  [params   |-> {"size"},
   computes |-> style \in STROKED_STYLES,
   body     |-> svelteInner(style, innerSvg)]

\* ({ size = 24, ... }) / let { size = 24, ...rest } = $props()
sizeOf(size) == IF size.given THEN size.v ELSE 24

\* const sw = strokeWidth ?? (size <= 16 ? 1.75 : 1.5);
reactSw(size, strokeWidth) ==
  IF strokeWidth.given THEN strokeWidth.text
  ELSE IF size <= 16 THEN "1.75" ELSE "1.5"

\* let sw = $derived(size <= 16 ? 1.75 : 1.5);
svelteSw(size) == IF size <= 16 THEN "1.75" ELSE "1.5"

\* The embedded content with {sw} evaluated.
Evaluate(body, sw) ==
  [i \in DOMAIN body |-> IF body[i].value = "{sw}" THEN [body[i] EXCEPT !.value = sw] ELSE body[i]]

\* Rendering a generated React component with the caller's props: a prop the
\* function does not destructure is spread onto the root <svg> with ...props.
renderReact(comp, size, strokeWidth) ==
  LET sz == sizeOf(size)
      sw == IF comp.computes THEN reactSw(sz, strokeWidth) ELSE ""
  IN [width |-> sz, height |-> sz, sw |-> sw,
      rootStroke |-> IF "strokeWidth" \in comp.params THEN NoProp ELSE strokeWidth,
      body |-> Evaluate(comp.body, sw)]

\* Rendering a generated Svelte component: everything but size is in rest and
\* is spread onto the root <svg>.
renderSvelte(comp, size, strokeWidth) ==
  LET sz == sizeOf(size)
      sw == IF comp.computes THEN svelteSw(sz) ELSE ""
  IN [width |-> sz, height |-> sz, sw |-> sw,
      rootStroke |-> strokeWidth,
      body |-> Evaluate(comp.body, sw)]

NoComponent == [params |-> {}, computes |-> FALSE, body |-> <<>>]

NoRender == [width |-> 0, height |-> 0, sw |-> "", rootStroke |-> NoProp, body |-> <<>>]

\* No process of the build script: the variables of main() at rest.
MainOff ==
  /\ args = {}
  /\ tree = {}
  /\ ontFile = "absent"
  /\ pc = "exit"
  /\ rebuild = FALSE
  /\ running = 0
  /\ ran = <<>>
  /\ icons = <<>>
  /\ manifest = Undefined
  /\ skipped = {}
  /\ ioFailed = FALSE
  /\ ontology = "unset"
  /\ dist = EmptyDir
  /\ watching = FALSE
  /\ timers = <<>>
  /\ pending = <<>>
  /\ sinceLast = SinceCap
  /\ burstLen = 0
  /\ burstBuilds = 0
  /\ demoDirty = FALSE

\* One manifest record, as the codegen stages see it.
InitGen ==
  /\ gen \in [phase : {"input"}, style : Range(STYLES), inner : Inners,
              size : {NoProp}, strokeWidth : {NoProp},
              react : {NoComponent}, svelte : {NoComponent},
              outReact : {NoRender}, outSvelte : {NoRender}]
  /\ MainOff
  /\ outs = OutOff
  /\ xml = XmlOff
  /\ page = PageOff
  /\ runs = RunsOff

\* The loop bodies of stageReact and stageSvelte for the record.
Generate ==
  /\ gen.phase = "input"
  /\ gen' = [gen EXCEPT !.phase = "generated",
                        !.react = reactComponent(gen.style, gen.inner),
                        !.svelte = svelteComponent(gen.style, gen.inner)]
  /\ UNCHANGED <<mainVars, outs, xml, page, runs>>

\* A caller renders both components with some props.
Render ==
  /\ gen.phase = "generated"
  /\ \E size \in SizeProps, strokeWidth \in StrokeProps :
       gen' = [gen EXCEPT !.phase = "rendered",
                          !.size = size,
                          !.strokeWidth = strokeWidth,
                          !.outReact = renderReact(gen.react, size, strokeWidth),
                          !.outSvelte = renderSvelte(gen.svelte, size, strokeWidth)]
  /\ UNCHANGED <<mainVars, outs, xml, page, runs>>

NextGen == Generate \/ Render

SpecGen == InitGen /\ [][NextGen]_vars

\* ------------------------------------------------ generated outputs (SpecOut)
\* The style identifiers as text.
StyleText(style) ==
  CASE style = "outline" -> <<"o", "u", "t", "l", "i", "n", "e">>
    [] style = "solid"   -> <<"s", "o", "l", "i", "d">>
    [] style = "duotone" -> <<"d", "u", "o", "t", "o", "n", "e">>
    [] style = "sharp"   -> <<"s", "h", "a", "r", "p">>

\* The collation of String.prototype.localeCompare over the characters of
\* names: punctuation before digits before letters, a letter's case looked at
\* only when everything else is equal.
PrimaryOf ==
  [c \in WordChars \cup {"-"} |->
     IF c = "_" THEN 1
     ELSE IF c = "-" THEN 2
     ELSE IF c \in Range(Digits) THEN 2 + IndexOf(Digits, c)
     ELSE IF c \in Range(Lowers) THEN 12 + IndexOf(Lowers, c)
     ELSE 12 + IndexOf(Uppers, c)]

Primary(c) == PrimaryOf[c]

TertiaryOf == [c \in WordChars \cup {"-"} |-> IF c \in Range(Uppers) THEN 1 ELSE 0]

Tertiary(c) == TertiaryOf[c]

RECURSIVE CompareKeys(_, _, _)
\* Lexicographic comparison of two sequences of weights from position i on.
CompareKeys(a, b, i) ==
  IF i > Len(a) /\ i > Len(b) THEN 0
  ELSE IF i > Len(a) THEN -1
  ELSE IF i > Len(b) THEN 1
  ELSE IF a[i] < b[i] THEN -1
  ELSE IF a[i] > b[i] THEN 1
  ELSE CompareKeys(a, b, i + 1)

\* a.localeCompare(b): negative, zero or positive.
localeCompare(a, b) ==
  LET p == CompareKeys([i \in DOMAIN a |-> Primary(a[i])],
                       [i \in DOMAIN b |-> Primary(b[i])], 1)
  IN IF p # 0 THEN p
     ELSE CompareKeys([i \in DOMAIN a |-> Tertiary(a[i])],
                      [i \in DOMAIN b |-> Tertiary(b[i])], 1)

RECURSIVE InsertIndex(_, _, _)
\* e goes before the first element whose key is greater than its own.
InsertIndex(sorted, e, keys) ==
  IF sorted = <<>> THEN <<e>>
  ELSE IF localeCompare(keys[e], keys[Head(sorted)]) < 0 THEN <<e>> \o sorted
  ELSE <<Head(sorted)>> \o InsertIndex(Tail(sorted), e, keys)

RECURSIVE SortedIndexes(_, _)
SortedIndexes(keys, n) ==
  IF n = 0 THEN <<>> ELSE InsertIndex(SortedIndexes(keys, n - 1), n, keys)

\* arr.sort((a, b) => key(a).localeCompare(key(b))), keys[i] being the key of
\* arr[i]; Array.prototype.sort is stable.
sort(arr, keys) ==
  LET p == SortedIndexes(keys, Len(arr))
  IN [i \in DOMAIN arr |-> arr[p[i]]]

\* const suffixedName = pascalName + toPascalCase(style);
suffixedName(rec) == toPascalCase(rec.name) \o toPascalCase(StyleText(rec.style))

\* allEntries after the loop over the manifest.
allEntries(items) ==
  [i \in DOMAIN items |->
     [style        |-> items[i].style,
      pascalName   |-> toPascalCase(items[i].name),
      suffixedName |-> suffixedName(items[i])]]

\* styleEntries.get(style) after the loop over the manifest.
styleEntries(items, style) ==
  LET recs == SelectSeq(items, LAMBDA r : r.style = style)
  IN [i \in DOMAIN recs |-> [name |-> recs[i].name, pascalName |-> toPascalCase(recs[i].name)]]

\* The lines of {fw}/{style}/index.js: export { default as X } from './X.ext'
styleBarrel(items, style) ==
  LET entries == styleEntries(items, style)
      sorted  == sort(entries, [i \in DOMAIN entries |-> entries[i].pascalName])
  IN [i \in DOMAIN sorted |-> [export |-> sorted[i].pascalName, file |-> sorted[i].pascalName]]

\* allEntries.sort((a, b) => a.suffixedName.localeCompare(b.suffixedName))
sortedEntries(entries) == sort(entries, [i \in DOMAIN entries |-> entries[i].suffixedName])

\* The lines of {fw}/index.js: export { default as XStyle } from './style/X.ext'
rootBarrel(entries) ==
  [i \in DOMAIN entries |->
     [export |-> entries[i].suffixedName, style |-> entries[i].style, file |-> entries[i].pascalName]]

\* The declarations of react/index.d.ts: export declare const XStyle: Icon;
tsLines(entries) == [i \in DOMAIN entries |-> entries[i].suffixedName]

\* What stageReact writes besides the component files; allEntries is sorted in
\* place for the root barrel and once more for the declarations.
reactOutput(items) ==
  LET forRoot == sortedEntries(allEntries(items))
      forDts  == sortedEntries(forRoot)
  IN [allEntries |-> allEntries(items),
      barrels    |-> [st \in StylesOf(items) |-> styleBarrel(items, st)],
      root       |-> rootBarrel(forRoot),
      dts        |-> tsLines(forDts)]

\* What stageSvelte writes besides the component files.
svelteOutput(items) ==
  [allEntries |-> allEntries(items),
   barrels    |-> [st \in StylesOf(items) |-> styleBarrel(items, st)],
   root       |-> rootBarrel(sortedEntries(allEntries(items)))]

\* id: `${name}-${style}`
spriteId(rec) == rec.name \o <<"-">> \o StyleText(rec.style)

\* The symbols in manifest order; innerSvg stands for the record's content.
symbolsOf(items) ==
  [i \in DOMAIN items |-> [id |-> spriteId(items[i]), innerSvg |-> items[i]]]

\* The symbols of the sprite left in manifest order.
spriteSymbolsUnsorted(items) == symbolsOf(items)

\* The symbols of dist/sprite.svg, in document order.
spriteSymbols(items) ==
  LET symbols == symbolsOf(items)
  IN sort(symbols, [i \in DOMAIN symbols |-> symbols[i].id])

\* A key of a parsed JSON object: present with a value, or not present.
NoField == [has |-> FALSE, v |-> <<>>]

Field(v) == [has |-> TRUE, v |-> v]

\* x || d for a string x: an absent key and the empty string give d.
OrText(f, d) == IF f.has /\ f.v # <<>> THEN f.v ELSE d

\* x || d for an array or object x: only an absent key gives d.
OrList(f, d) == IF f.has THEN f.v ELSE d

\* {}: an ontology entry with no key.
NoMeta == [label |-> NoField, description |-> NoField, category |-> NoField, tags |-> NoField]

EmptyIcons == [n \in {} |-> NoMeta]

\* loadOntology(): the empty ontology for an absent file, else the parsed file
\* (the category validation only warns).
loadOntology(file) ==
  IF ~file.exists
    THEN [categories |-> Field(<<>>), icons |-> Field(EmptyIcons)]
    ELSE [categories |-> file.categories, icons |-> file.icons]

\* [...byName.keys()]: the names in the order of their first manifest record.
RECURSIVE byNameKeys(_, _)
byNameKeys(items, n) ==
  IF n = 0 THEN <<>>
  ELSE IF \E j \in 1..(n - 1) : items[j].name = items[n].name
    THEN byNameKeys(items, n - 1)
  ELSE Append(byNameKeys(items, n - 1), items[n].name)

\* byName.get(name): the styles of the name's records, in manifest order.
byNameStyles(items, name) ==
  LET recs == SelectSeq(items, LAMBDA r : r.name = name)
  IN [i \in DOMAIN recs |-> recs[i].style]

\* name.charAt(0).toUpperCase() + name.slice(1)
capitalize(name) == IF name = <<>> THEN <<>> ELSE <<Upper(Head(name))>> \o Tail(name)

Uncategorized == <<"U", "n", "c", "a", "t", "e", "g", "o", "r", "i", "z", "e", "d">>

\* const meta = (ontology.icons || {})[name] || {};
metaOf(ontol, name) ==
  LET entries == OrList(ontol.icons, EmptyIcons)
  IN IF name \in DOMAIN entries THEN entries[name] ELSE NoMeta

\* A fallback that applies to the whole entry: the defaults unless the
\* ontology gives all four fields.
iconFieldsAllOrNothing(meta, name) ==
  IF meta.label.has /\ meta.description.has /\ meta.category.has /\ meta.tags.has
    THEN [label |-> meta.label.v, description |-> meta.description.v,
          category |-> meta.category.v, tags |-> meta.tags.v]
    ELSE [label |-> capitalize(name), description |-> <<>>,
          category |-> Uncategorized, tags |-> <<>>]

\* label, description, category and tags of one icon entry.
iconFields(meta, name) ==
  [label       |-> OrText(meta.label, capitalize(name)),
   description |-> OrText(meta.description, <<>>),
   category    |-> OrText(meta.category, Uncategorized),
   tags        |-> OrList(meta.tags, <<>>)]

\* The entry of one name in metadata.icons.
iconEntry(ontol, name, styles) ==
  LET f == iconFields(metaOf(ontol, name), name)
  IN [name |-> name, label |-> f.label, description |-> f.description,
      category |-> f.category, tags |-> f.tags, styles |-> styles]

\* Entries only for the icons the ontology knows.
iconEntriesKnownOnly(items, ontol) ==
  LET keys == SelectSeq(byNameKeys(items, Len(items)),
                        LAMBDA n : n \in DOMAIN OrList(ontol.icons, EmptyIcons))
  IN [i \in DOMAIN keys |-> iconEntry(ontol, keys[i], byNameStyles(items, keys[i]))]

\* The entries in the order of byName.
iconEntries(items, ontol) ==
  LET keys == byNameKeys(items, Len(items))
  IN [i \in DOMAIN keys |-> iconEntry(ontol, keys[i], byNameStyles(items, keys[i]))]

\* metadata.icons left in the order of byName.
metadataIconsUnsorted(items, ontol) == iconEntries(items, ontol)

\* metadata.icons: [...byName.entries()].map(...).sort(by name)
metadataIcons(items, ontol) ==
  LET entries == iconEntries(items, ontol)
  IN sort(entries, [i \in DOMAIN entries |-> entries[i].name])

\* The count of distinct names in place of the count of records.
totalCountOfNames(items) == Cardinality({items[i].name : i \in DOMAIN items})

\* totalCount: manifest.length
totalCount(items) == Len(items)

\* The ontology's category list, sorted.
categoriesSorted(ontol) ==
  LET c == OrList(ontol.categories, <<>>) IN sort(c, c)

\* categories: ontology.categories || []
categoriesOf(ontol) == OrList(ontol.categories, <<>>)

\* The document written to dist/metadata.json; the fields are its keys.
metadataDoc(items, ontol) ==
  [icons      |-> metadataIcons(items, ontol),
   categories |-> categoriesOf(ontol),
   totalCount |-> totalCount(items),
   styles     |-> STYLES]

\* The files of the source trees of SpecOut: names that differ by a hyphen
\* only, a name in two styles, a name outside kebab-case, a rejected file.
OutFiles ==
  { [style |-> "outline", name |-> <<"a", "1">>,      valid |-> TRUE],
    [style |-> "outline", name |-> <<"a", "-", "1">>, valid |-> TRUE],
    [style |-> "outline", name |-> <<"a", "_", "b">>, valid |-> TRUE],
    [style |-> "outline", name |-> <<"b">>,           valid |-> TRUE],
    [style |-> "solid",   name |-> <<"b">>,           valid |-> TRUE],
    [style |-> "sharp",   name |-> <<"c">>,           valid |-> FALSE] }

OutTrees == {t \in SUBSET OutFiles : Cardinality(t) <= MaxOutIcons}

\* The entries src/icons.json may give for the icon b: each of the four fields
\* present or not, and an entry whose fields are all empty.
OntMetas ==
  [label       : {NoField, Field(<<"B", "e", "e">>)},
   description : {NoField, Field(<<"d">>)},
   category    : {NoField, Field(<<"n", "a", "v">>)},
   tags        : {NoField, Field(<< <<"t">> >>)}]
  \cup {[label |-> Field(<<>>), description |-> Field(<<>>),
         category |-> Field(<<>>), tags |-> Field(<<>>)]}

\* src/icons.json: absent, an object with no key, or categories and one entry.
OntFiles ==
  {[exists |-> FALSE, categories |-> NoField, icons |-> NoField],
   [exists |-> TRUE,  categories |-> NoField, icons |-> NoField]}
  \cup {[exists |-> TRUE,
         categories |-> Field(<< <<"n", "a", "v">>, <<"a", "c", "t">> >>),
         icons |-> Field([n \in {<<"b">>} |-> m])] : m \in OntMetas}

NoOutput == <<>>

\* const ontology = loadOntology();
OutOntology ==
  /\ outs.pc = "ontology"
  /\ outs' = [outs EXCEPT !.pc = "svg", !.ontology = loadOntology(outs.ontFile)]
  /\ UNCHANGED <<mainVars, gen, xml, page, runs>>

\* manifest = stageSvg(); every output write succeeds.
OutSvg ==
  /\ outs.pc = "svg"
  /\ \E list \in ReadOrders(outs.tree) :
       outs' = [outs EXCEPT !.pc = "react",
                            !.list = list,
                            !.manifest = stageSvg(list, {}, EmptyDir).manifest,
                            !.reordered = outs.run = 2 /\ list # outs.firstList,
                            !.firstList = <<>>]
  /\ UNCHANGED <<mainVars, gen, xml, page, runs>>

\* stageReact(manifest);
OutReact ==
  /\ outs.pc = "react"
  /\ outs' = [outs EXCEPT !.pc = "svelte", !.react = reactOutput(outs.manifest)]
  /\ UNCHANGED <<mainVars, gen, xml, page, runs>>

\* stageSvelte(manifest);
OutSvelte ==
  /\ outs.pc = "svelte"
  /\ outs' = [outs EXCEPT !.pc = "sprite", !.svelte = svelteOutput(outs.manifest)]
  /\ UNCHANGED <<mainVars, gen, xml, page, runs>>

\* stageSprite(manifest);
OutSprite ==
  /\ outs.pc = "sprite"
  /\ outs' = [outs EXCEPT !.pc = "metadata", !.sprite = spriteSymbols(outs.manifest)]
  /\ UNCHANGED <<mainVars, gen, xml, page, runs>>

\* stageMetadata(manifest, ontology);
OutMetadata ==
  /\ outs.pc = "metadata"
  /\ outs' = [outs EXCEPT !.pc = "done",
                          !.metadata = metadataDoc(outs.manifest, outs.ontology)]
  /\ UNCHANGED <<mainVars, gen, xml, page, runs>>

\* The build script is started again on the same source tree and ontology
\* file; what the first run wrote is kept for comparison, and the order in
\* which it read the files until the second run has read them (reordered).
OutRerun ==
  /\ outs.pc = "done" /\ outs.run = 1
  /\ outs' = [outs EXCEPT !.pc = "ontology", !.run = 2,
                          !.first = [react |-> outs.react, svelte |-> outs.svelte,
                                     sprite |-> outs.sprite, metadata |-> outs.metadata],
                          !.firstList = outs.list,
                          !.list = <<>>, !.manifest = <<>>, !.ontology = NoOutput,
                          !.react = NoOutput, !.svelte = NoOutput,
                          !.sprite = NoOutput, !.metadata = NoOutput]
  /\ UNCHANGED <<mainVars, gen, xml, page, runs>>

InitOut ==
  /\ outs \in [pc : {"ontology"}, run : {1}, tree : OutTrees, ontFile : OntFiles,
               list : {<<>>}, manifest : {<<>>}, ontology : {NoOutput},
               react : {NoOutput}, svelte : {NoOutput}, sprite : {NoOutput},
               metadata : {NoOutput}, first : {NoOutput}, firstList : {<<>>},
               reordered : {FALSE}]
  /\ MainOff
  /\ gen = GenOff
  /\ xml = XmlOff
  /\ page = PageOff
  /\ runs = RunsOff

NextOut ==
  \/ OutOntology
  \/ OutSvg
  \/ OutReact
  \/ OutSvelte
  \/ OutSprite
  \/ OutMetadata
  \/ OutRerun

SpecOut == InitOut /\ [][NextOut]_vars

\* -------------------------------------------- inner content (SpecInner)
\* Text is a sequence of characters; positions are JavaScript's, from 0.
Whitespace == {" ", "\n"}

MatchAt(s, pat, i) ==
  /\ i + Len(pat) - 1 <= Len(s)
  /\ \A k \in DOMAIN pat : s[i + k - 1] = pat[k]

Matches(s, pat) == {i \in DOMAIN s : MatchAt(s, pat, i)}

\* String.prototype.indexOf: the first match, or -1.
indexOf(s, pat) ==
  IF Matches(s, pat) = {} THEN -1
  ELSE (CHOOSE i \in Matches(s, pat) : \A j \in Matches(s, pat) : i <= j) - 1

\* String.prototype.lastIndexOf: the last match, or -1.
lastIndexOf(s, pat) ==
  IF Matches(s, pat) = {} THEN -1
  ELSE (CHOOSE i \in Matches(s, pat) : \A j \in Matches(s, pat) : i >= j) - 1

\* String.prototype.slice: a negative index counts from the end, both indexes
\* are clamped to the string, and an empty range gives the empty string.
slice(s, start, end) ==
  LET n    == Len(s)
      from == IF start < 0 THEN Max(n + start, 0) ELSE Min(start, n)
      to   == IF end < 0 THEN Max(n + end, 0) ELSE Min(end, n)
  IN IF from >= to THEN <<>> ELSE SubSeq(s, from + 1, to)

RECURSIVE trimStart(_)
trimStart(s) == IF s # <<>> /\ Head(s) \in Whitespace THEN trimStart(Tail(s)) ELSE s

RECURSIVE trimEnd(_)
trimEnd(s) ==
  IF s # <<>> /\ s[Len(s)] \in Whitespace THEN trimEnd(SubSeq(s, 1, Len(s) - 1)) ELSE s

\* String.prototype.trim
trim(s) == trimEnd(trimStart(s))

\* '</svg>'
ClosingTag == <<"<", "/", "s", "v", "g", ">">>

getSvgInner(svgString) ==
  LET open  == indexOf(svgString, <<">">>) + 1
      close == lastIndexOf(svgString, ClosingTag)
  IN trim(slice(svgString, open, close))

\* What optimize() may return, in three parts: the root's opening tag (or what
\* stands in its place), the content, and the root's closing tag.
OpenTag == <<"<", "s", "v", "g", ">">>

OpenTagAttr == <<"<", "s", "v", "g", " ", "w", "=", "\"", "1", "\"", ">">>

SelfClosed == <<"<", "s", "v", "g", "/", ">">>

Unclosed == <<"<", "s", "v", "g">>

Child == <<"<", "p", "/", ">">>

Heads == {OpenTag, OpenTagAttr, SelfClosed, Unclosed, <<>>}

Bodies ==
  {<<>>, <<" ">>, Child, <<"\n">> \o Child \o <<"\n">>, Child \o Child,
   OpenTag \o Child \o ClosingTag}

Feet == {ClosingTag, ClosingTag \o <<"\n">>, <<>>}

\* const { data: optimizedSvg } = optimize(raw, svgoConfig);
Optimize ==
  /\ xml.phase = "raw"
  /\ \E head \in Heads, body \in Bodies, foot \in Feet :
       xml' = [xml EXCEPT !.phase = "optimized", !.head = head, !.body = body,
                          !.foot = foot, !.optimizedSvg = head \o body \o foot]
  /\ UNCHANGED <<mainVars, gen, outs, page, runs>>

\* const innerSvg = getSvgInner(optimizedSvg);
SvgInner ==
  /\ xml.phase = "optimized"
  /\ xml' = [xml EXCEPT !.phase = "sliced", !.innerSvg = getSvgInner(xml.optimizedSvg)]
  /\ UNCHANGED <<mainVars, gen, outs, page, runs>>

\* manifest.push({ style, name, optimizedSvg, innerSvg });
Push ==
  /\ xml.phase = "sliced"
  /\ xml' = [xml EXCEPT !.phase = "pushed",
                        !.record = [optimizedSvg |-> xml.optimizedSvg,
                                    innerSvg |-> xml.innerSvg]]
  /\ UNCHANGED <<mainVars, gen, outs, page, runs>>

NoRecord == [optimizedSvg |-> <<>>, innerSvg |-> <<>>]

InitInner ==
  /\ xml = [phase |-> "raw", head |-> <<>>, body |-> <<>>, foot |-> <<>>,
            optimizedSvg |-> <<>>, innerSvg |-> <<>>, record |-> NoRecord]
  /\ MainOff
  /\ gen = GenOff
  /\ outs = OutOff
  /\ page = PageOff
  /\ runs = RunsOff

NextInner == Optimize \/ SvgInner \/ Push

SpecInner == InitInner /\ [][NextInner]_vars

\* ------------------------------------------------- demo page (SpecPage)
\* The icons of the page's ICON_META.
PageIcons == {"x", "y"}

\* The icon parameter of a URL: none (""), a known icon, or an unknown one.
UrlIcons == PageIcons \cup {"", "zz"}

\* A session-history entry: the document it belongs to and, for the demo page,
\* the icon parameter of its URL.
OtherDoc == [doc |-> "other", icon |-> ""]

DemoEntry(icon) == [doc |-> "demo", icon |-> icon]

\* buildURL(): the icon parameter is set when activeIcon is truthy.
buildURL(activeIcon) == DemoEntry(activeIcon)

\* history.pushState: the entries after the current one are dropped and a new
\* entry becomes the current one.
pushState(p, url) ==
  [p EXCEPT !.entries = Append(SubSeq(p.entries, 1, p.idx), url), !.idx = p.idx + 1]

\* history.replaceState: the current entry gets the URL.
replaceState(p, url) == [p EXCEPT !.entries[p.idx] = url]

openDetail(p, iconName) ==
  pushState([p EXCEPT !.open = TRUE, !.activeIcon = iconName], buildURL(iconName))

closeDetail(p) ==
  pushState([p EXCEPT !.open = FALSE, !.activeIcon = ""], buildURL(""))

\* The script runs at load: readURL(), then the panel is opened from the URL.
Load ==
  /\ page.phase = "loading"
  /\ LET icon == page.entries[page.idx].icon
         p0   == [page EXCEPT !.phase = "ready", !.after = "load", !.activeIcon = icon]
     IN page' = IF icon # "" /\ icon \in PageIcons
                  THEN LET p1 == openDetail(p0, icon)
                       IN replaceState(p1, buildURL(p1.activeIcon))
                  ELSE p0
  /\ UNCHANGED <<mainVars, gen, outs, xml, runs>>

\* A click on an icon cell or row.
ClickIcon ==
  /\ page.phase = "ready"
  /\ Len(page.entries) < MaxHistory
  /\ \E i \in PageIcons : page' = openDetail([page EXCEPT !.after = "user"], i)
  /\ UNCHANGED <<mainVars, gen, outs, xml, runs>>

\* Escape, the close button or the backdrop, with the panel open.
ClosePanel ==
  /\ page.phase = "ready"
  /\ page.open
  /\ Len(page.entries) < MaxHistory
  /\ page' = closeDetail([page EXCEPT !.after = "user"])
  /\ UNCHANGED <<mainVars, gen, outs, xml, runs>>

\* The browser moves to the entry at position target: within the demo
\* document a popstate event follows, towards another document the page is
\* left, and from another document the demo page is loaded.
TraverseTo(target) ==
  page' = [page EXCEPT
             !.idx = target,
             !.nav = [len |-> Len(page.entries), idx |-> target],
             !.after = "user",
             !.phase = IF page.entries[target].doc = "other" THEN "away"
                       ELSE IF page.phase = "away" THEN "loading"
                       ELSE "popstate",
             !.open = IF page.entries[target].doc = "demo" /\ page.phase = "ready"
                        THEN page.open ELSE FALSE,
             !.activeIcon = IF page.entries[target].doc = "demo" /\ page.phase = "ready"
                              THEN page.activeIcon ELSE ""]

Back ==
  /\ page.phase \in {"ready", "away"}
  /\ page.idx > 1
  /\ TraverseTo(page.idx - 1)
  /\ UNCHANGED <<mainVars, gen, outs, xml, runs>>

Forward ==
  /\ page.phase \in {"ready", "away"}
  /\ page.idx < Len(page.entries)
  /\ TraverseTo(page.idx + 1)
  /\ UNCHANGED <<mainVars, gen, outs, xml, runs>>

\* window.addEventListener('popstate', ...)
PopState ==
  /\ page.phase = "popstate"
  /\ LET icon == page.entries[page.idx].icon
         p0   == [page EXCEPT !.phase = "ready", !.after = "popstate", !.activeIcon = icon]
         p1   == IF icon # "" /\ icon \in PageIcons THEN openDetail(p0, icon) ELSE closeDetail(p0)
     IN page' = replaceState(p1, buildURL(p1.activeIcon))
  /\ UNCHANGED <<mainVars, gen, outs, xml, runs>>

\* The demo page is opened from another page, with some URL.
InitPage ==
  /\ page \in [phase : {"loading"}, entries : {<<OtherDoc, DemoEntry(u)>> : u \in UrlIcons},
               idx : {2}, activeIcon : {""}, open : {FALSE},
               nav : {[len |-> 2, idx |-> 2]}, after : {"user"}]
  /\ MainOff
  /\ gen = GenOff
  /\ outs = OutOff
  /\ xml = XmlOff
  /\ runs = RunsOff

NextPage == Load \/ ClickIcon \/ ClosePanel \/ Back \/ Forward \/ PopState

SpecPage == InitPage /\ [][NextPage]_vars

\* --------------------------------------------- successive runs (SpecRuns)
\* The files the source tree of SpecRuns may hold.
RunFiles ==
  { [style |-> "outline", name |-> <<"a">>, valid |-> TRUE],
    [style |-> "outline", name |-> <<"b">>, valid |-> TRUE],
    [style |-> "solid",   name |-> <<"b">>, valid |-> TRUE] }

RunTrees == {t \in SUBSET RunFiles : Cardinality(t) <= MaxRunIcons}

\* An ontology entry with a label and a category.
MetaIn(category) ==
  [label |-> Field(<<"B", "e", "e">>), description |-> NoField,
   category |-> Field(category), tags |-> NoField]

\* src/icons.json: absent, an object with no key, an entry for b with a listed
\* category, an entry for b with a category that is not in the list.
RunOntFiles ==
  {[exists |-> FALSE, categories |-> NoField, icons |-> NoField],
   [exists |-> TRUE,  categories |-> NoField, icons |-> NoField]}
  \cup {[exists |-> TRUE,
         categories |-> Field(<< <<"n", "a", "v">> >>),
         icons |-> Field([n \in {<<"b">>} |-> MetaIn(c)])] :
          c \in {<<"n", "a", "v">>, <<"z", "z">>}}

\* The console.warn calls of loadOntology(): the file is not found, or the
\* icons whose category is set and not in the list.
ontologyWarnings(file) ==
  IF ~file.exists
    THEN [notFound |-> TRUE, unknown |-> {}]
    ELSE LET validCats == Range(OrList(file.categories, <<>>))
             entries   == OrList(file.icons, EmptyIcons)
         IN [notFound |-> FALSE,
             unknown  |-> {n \in DOMAIN entries :
                             /\ OrText(entries[n].category, <<>>) # <<>>
                             /\ entries[n].category.v \notin validCats}]

\* What a consumer stage leaves behind: the array it was given, as it is after
\* the call, and what the stage computed. Each stage iterates the manifest or
\* maps it to a new array, and sorts only arrays of its own.
reactRun(items) == [manifest |-> items, out |-> reactOutput(items)]

svelteRun(items) == [manifest |-> items, out |-> svelteOutput(items)]

\* As if stageSprite sorted the array it was given (manifest.sort(...)) before
\* mapping it.
spriteRunInPlace(items) ==
  LET sorted == sort(items, [i \in DOMAIN items |-> spriteId(items[i])])
  IN [manifest |-> sorted, out |-> symbolsOf(sorted)]

\* manifest.map(...).sort(...): map() returns a new array, which is sorted.
spriteRun(items) == [manifest |-> items, out |-> spriteSymbols(items)]

metadataRun(items, ontol) == [manifest |-> items, out |-> metadataDoc(items, ontol)]

\* The icon count and the icon names of the demo page.
demoOutput(items, ontol) ==
  [iconCount |-> Len(items), iconNames |-> {items[i].name : i \in DOMAIN items}]

demoRun(items, ontol) == [manifest |-> items, out |-> demoOutput(items, ontol)]

\* const ontology = loadOntology();
RunOntology ==
  /\ runs.pc = "ontology"
  /\ runs' = [runs EXCEPT !.pc = "svg",
                          !.ontology = loadOntology(runs.ontFile),
                          !.warnings = ontologyWarnings(runs.ontFile)]
  /\ UNCHANGED <<mainVars, gen, outs, xml, page>>

\* manifest = stageSvg(); every output write succeeds. A directory that has
\* not changed since the last run is read in the same order.
RunSvg ==
  /\ runs.pc = "svg"
  /\ \E list \in ReadOrders(runs.tree) :
       /\ runs.edit = "ontology" => list = runs.prev.list
       /\ LET r == stageSvg(list, {}, runs.files)
          IN runs' = [runs EXCEPT !.pc = "react", !.list = list, !.manifest = r.manifest,
                                  !.returned = r.manifest, !.files = r.files]
  /\ UNCHANGED <<mainVars, gen, outs, xml, page>>

\* stageReact(manifest);
RunReact ==
  /\ runs.pc = "react"
  /\ LET r == reactRun(runs.manifest)
     IN runs' = [runs EXCEPT !.pc = "svelte", !.manifest = r.manifest, !.react = r.out,
                             !.files = stageReact(runs.manifest, runs.files)]
  /\ UNCHANGED <<mainVars, gen, outs, xml, page>>

\* stageSvelte(manifest);
RunSvelte ==
  /\ runs.pc = "svelte"
  /\ LET r == svelteRun(runs.manifest)
     IN runs' = [runs EXCEPT !.pc = "sprite", !.manifest = r.manifest, !.svelte = r.out,
                             !.files = stageSvelte(runs.manifest, runs.files)]
  /\ UNCHANGED <<mainVars, gen, outs, xml, page>>

\* stageSprite(manifest);
RunSprite ==
  /\ runs.pc = "sprite"
  /\ LET r == spriteRun(runs.manifest)
     IN runs' = [runs EXCEPT !.pc = "metadata", !.manifest = r.manifest, !.sprite = r.out,
                             !.files = stageSprite(runs.manifest, runs.files)]
  /\ UNCHANGED <<mainVars, gen, outs, xml, page>>

\* if (manifest) stageMetadata(manifest, ontology);
RunMetadata ==
  /\ runs.pc = "metadata"
  /\ LET r == metadataRun(runs.manifest, runs.ontology)
     IN runs' = [runs EXCEPT !.pc = "demo", !.manifest = r.manifest, !.metadata = r.out,
                             !.files = stageMetadata(runs.manifest, runs.files)]
  /\ UNCHANGED <<mainVars, gen, outs, xml, page>>

\* stageDemo(manifest, ontology); then main() returns.
RunDemo ==
  /\ runs.pc = "demo"
  /\ LET r == demoRun(runs.manifest, runs.ontology)
     IN runs' = [runs EXCEPT !.pc = "done", !.manifest = r.manifest, !.demo = r.out,
                             !.files = stageDemo(runs.manifest, runs.files)]
  /\ UNCHANGED <<mainVars, gen, outs, xml, page>>

\* What the next run starts from: the output tree stays, main()'s locals are
\* new, and the finished run's results are kept for comparison.
NextRun(kind) ==
  [runs EXCEPT !.pc = "ontology", !.run = runs.run + 1, !.edit = kind,
               !.prev = [list |-> runs.list, manifest |-> runs.manifest,
                         react |-> runs.react, svelte |-> runs.svelte,
                         sprite |-> runs.sprite, metadata |-> runs.metadata,
                         files |-> runs.files, ontFile |-> runs.ontFile],
               !.list = <<>>, !.manifest = <<>>, !.returned = <<>>,
               !.ontology = NoOutput, !.warnings = NoOutput, !.react = NoOutput,
               !.svelte = NoOutput, !.sprite = NoOutput, !.metadata = NoOutput,
               !.demo = NoOutput]

\* src/icons.json is written, replaced or removed, and the build runs again.
EditOntology ==
  /\ runs.pc = "done" /\ runs.run < MaxRuns
  /\ \E f \in RunOntFiles \ {runs.ontFile} :
       runs' = [NextRun("ontology") EXCEPT !.ontFile = f]
  /\ UNCHANGED <<mainVars, gen, outs, xml, page>>

\* An icon file is added to src/svg, and the build runs again.
AddIcon ==
  /\ runs.pc = "done" /\ runs.run < MaxRuns
  /\ \E f \in RunFiles \ runs.tree :
       /\ runs.tree \cup {f} \in RunTrees
       /\ runs' = [NextRun("tree") EXCEPT !.tree = runs.tree \cup {f}]
  /\ UNCHANGED <<mainVars, gen, outs, xml, page>>

\* An icon file is removed from src/svg, and the build runs again.
DeleteIcon ==
  /\ runs.pc = "done" /\ runs.run < MaxRuns
  /\ \E f \in runs.tree : runs' = [NextRun("tree") EXCEPT !.tree = runs.tree \ {f}]
  /\ UNCHANGED <<mainVars, gen, outs, xml, page>>

InitRuns ==
  /\ runs \in [pc : {"ontology"}, run : {1}, edit : {"none"}, tree : RunTrees,
               ontFile : RunOntFiles, list : {<<>>}, ontology : {NoOutput},
               warnings : {NoOutput}, manifest : {<<>>}, returned : {<<>>},
               react : {NoOutput}, svelte : {NoOutput}, sprite : {NoOutput},
               metadata : {NoOutput}, demo : {NoOutput}, files : {EmptyDir},
               prev : {NoOutput}]
  /\ MainOff
  /\ gen = GenOff
  /\ outs = OutOff
  /\ xml = XmlOff
  /\ page = PageOff

NextRuns ==
  \/ RunOntology
  \/ RunSvg
  \/ RunReact
  \/ RunSvelte
  \/ RunSprite
  \/ RunMetadata
  \/ RunDemo
  \/ EditOntology
  \/ AddIcon
  \/ DeleteIcon

SpecRuns == InitRuns /\ [][NextRuns]_vars

\* ------------------------------------------------------------------ claims
FullPipeline == <<"ontology", "svg", "react", "svelte", "sprite", "metadata", "demo">>

\* main() has run its last stage statement and is returning or has returned.
MainCompleted == pc \in {"return", "watch", "exit", "idle"}

IsPrefix(s, t) == Len(s) <= Len(t) /\ \A i \in DOMAIN s : s[i] = t[i]

PosIn(list, id) == CHOOSE i \in DOMAIN list : Identity(list[i]) = id

\* C1: when optimize fails for an icon, stageSvg warns about it, leaves it out
\* of the manifest and goes on: every icon read is either in the manifest or
\* was skipped with a warning, no icon whose optimization failed is in the
\* manifest, the manifest keeps the read order, and, no output write having
\* failed, the manifest holds exactly the icons whose optimization succeeded.
\* stageSvg returns normally (main() goes on to its next statement).
C1_OptimizerFailureSkipsIcon ==
  manifest.defined =>
    /\ \A i \in DOMAIN icons :
         /\ ~icons[i].valid =>
              Identity(icons[i]) \notin Range(manifest.items) /\ Identity(icons[i]) \in skipped
         /\ icons[i].valid =>
              \/ Identity(icons[i]) \in Range(manifest.items)
              \/ ioFailed /\ Identity(icons[i]) \in skipped
    /\ \A k \in DOMAIN manifest.items :
         \E i \in DOMAIN icons : Identity(icons[i]) = manifest.items[k] /\ icons[i].valid
    /\ \A k, l \in DOMAIN manifest.items :
         k < l => PosIn(icons, manifest.items[k]) < PosIn(icons, manifest.items[l])
    /\ ~ioFailed =>
         Len(manifest.items) = Cardinality({i \in DOMAIN icons : icons[i].valid})
    /\ (ran # <<>> /\ ran[Len(ran)] = "svg") => pc # "crashed"

\* C1 witness: three icons read, the middle one rejected by the optimizer, the
\* two around it in the manifest.
C1_Witness ==
  /\ manifest.defined /\ ~ioFailed
  /\ Len(icons) = 3 /\ ~icons[2].valid
  /\ manifest.items = <<Identity(icons[1]), Identity(icons[3])>>
  /\ pc = "react"

\* C2: a burst of change events (.svg and ontology events alike), each handled
\* less than DELAY after the one before, starts exactly one rebuild, and only
\* once DELAY has passed since the last event of the burst: no rebuild while
\* the timer is armed, one rebuild once it is not.
C2_OneRebuildPerBurst ==
  /\ burstBuilds <= 1
  /\ Len(timers) <= 1
  /\ burstLen > 0 => burstBuilds = (IF timers # <<>> THEN 0 ELSE 1)
  /\ (rebuild /\ running > 0) => sinceLast >= DELAY /\ burstBuilds = 1

\* C2 witness: a rebuild has just started for a burst of several events.
C2_Witness ==
  burstLen >= 2 /\ burstBuilds = 1 /\ rebuild /\ pc = "ontology" /\ sinceLast >= DELAY

\* C3 (as claimed): every rebuild started by the debounce timer runs the full
\* pipeline, whatever flags enabled watch mode, before the trigger is idle again.
C3_RebuildRunsFullPipeline ==
  (rebuild /\ pc = "return") => Range(FullPipeline) \subseteq Range(ran)

MainPcs == {"ontology", "svg", "react", "svelte", "sprite", "metadata", "demo", "return"}

SuccPc(p) ==
  CASE p = "ontology" -> {"svg"}
    [] p = "svg"      -> {"react"}
    [] p = "react"    -> {"svelte"}
    [] p = "svelte"   -> {"sprite"}
    [] p = "sprite"   -> {"metadata"}
    [] p = "metadata" -> {"demo"}
    [] p = "demo"     -> {"return"}
    [] p = "return"   -> {"idle", "watch"}
    [] OTHER          -> {}

\* C4: at most one main() is executing at any time, also with change events
\* arriving while the timer is armed or a rebuild is in flight; and a rebuild in
\* flight is never cancelled or restarted: its next step is the next statement
\* of main() (only a fatal error, which ends the process, stops it early).
C4_OneRebuildAtATime ==
  /\ [](running <= 1)
  /\ [][(pc \in MainPcs /\ pc' # pc) =>
          /\ pc' \in SuccPc(pc) \cup {"crashed"}
          /\ running' = (IF pc = "return" THEN 0 ELSE 1)]_vars

\* C4 witness: a change event has arrived while a rebuild is in flight.
C4_Witness ==
  rebuild /\ running = 1 /\ pc = "metadata" /\ pending # <<>>

\* C5 (as claimed): a change under demo/src makes the watch trigger react (the
\* demo stage on the cached manifest, or a full rebuild): while the demo
\* payload is changed and not regenerated, an event, a timer or a run is under way.
C5_DemoChangeTriggersRun ==
  (watching /\ demoDirty /\ pc = "idle") => (pending # <<>> \/ timers # <<>>)

\* C6: with no flags every stage runs exactly once in one pass, in the order
\* ontology, optimizer, React, Svelte, sprite, metadata, demo, each consumer
\* after the optimizer and on the manifest it returned.
C6_NoFlagsRunsEveryStageOnce ==
  args = {} =>
    /\ IsPrefix(ran, FullPipeline)
    /\ (MainCompleted => ran = FullPipeline)
    /\ (Len(ran) >= 2 => manifest.defined)
    /\ (pc \in {"exit", "watch"} => running = 0 /\ ~watching)

\* C6 witness: the process has ended after the seven stages.
C6_Witness ==
  args = {} /\ pc = "exit" /\ Len(ran) = 7 /\ Cardinality(DOMAIN dist) > 6

StageOfFlag(f) ==
  CASE f = "--svg"    -> "svg"
    [] f = "--react"  -> "react"
    [] f = "--svelte" -> "svelte"
    [] f = "--sprite" -> "sprite"
    [] f = "--demo"   -> "demo"

\* C7 (as claimed): with exactly one stage-selection flag only the stage it
\* names runs.
C7_SingleFlagRunsOneStage ==
  \A f \in Flags \ {"--watch"} :
    (args = {f} /\ MainCompleted) => Range(ran) \ {"ontology"} = {StageOfFlag(f)}

\* C10 (as claimed): after both codegen stages every manifest record has its
\* own component file in each framework: the file at its path holds its
\* component, and no two records share a path.
C10_OneComponentFilePerRecord ==
  (MainCompleted /\ {"react", "svelte"} \subseteq Range(ran)) =>
    \A fw \in {"react", "svelte"} : \A i, j \in DOMAIN manifest.items :
      /\ ComponentPath(fw, manifest.items[i]) \in DOMAIN dist
      /\ dist[ComponentPath(fw, manifest.items[i])] = manifest.items[i].name
      /\ i # j => ComponentPath(fw, manifest.items[i]) # ComponentPath(fw, manifest.items[j])

Rendered == gen.phase = "rendered"

Generated == gen.phase \in {"generated", "rendered"}

StrokeIdx == {i \in DOMAIN gen.inner : gen.inner[i].name = "stroke-width"}

\* The stroke width a size gives when nothing overrides it.
WidthForSize ==
  IF ~gen.size.given THEN "1.5"
  ELSE IF gen.size.v <= 16 THEN "1.75" ELSE "1.5"

\* C8: in both frameworks the stroke width of a stroke-based
\* component is the caller's override when given, else 1.75 for size <= 16 and
\* 1.5 for size > 16, size being 24 when not given.
C8_OverrideInBothFrameworks ==
  (Rendered /\ gen.style \in {"outline", "duotone", "sharp"}) =>
    \A out \in {gen.outReact, gen.outSvelte} :
      out.sw = (IF gen.strokeWidth.given THEN gen.strokeWidth.text ELSE WidthForSize)

\* C9: both generators follow the same static classification: for outline,
\* duotone and sharp every stroke-width of the inner content becomes a reference
\* to the computed value, in place; for solid the component declares no
\* stroke-width parameter, computes none, and keeps every stroke-width literal.
C9_StrokeWidthByStyle ==
  Generated =>
    /\ Len(gen.react.body) = Len(gen.inner) /\ Len(gen.svelte.body) = Len(gen.inner)
    /\ gen.react.computes = gen.svelte.computes
    /\ gen.style \in {"outline", "duotone", "sharp"} =>
         /\ gen.react.computes
         /\ \A i \in StrokeIdx :
              /\ gen.react.body[i] = [name |-> "strokeWidth", value |-> "{sw}"]
              /\ gen.svelte.body[i] = [name |-> "stroke-width", value |-> "{sw}"]
    /\ gen.style = "solid" =>
         /\ ~gen.react.computes
         /\ "strokeWidth" \notin gen.react.params \cup gen.svelte.params
         /\ \A i \in StrokeIdx :
              /\ gen.react.body[i] = [name |-> "strokeWidth", value |-> gen.inner[i].value]
              /\ gen.svelte.body[i] = gen.inner[i]
    /\ \A i \in DOMAIN gen.inner \ StrokeIdx :
         gen.react.body[i].value = gen.inner[i].value /\ gen.svelte.body[i] = gen.inner[i]

\* C9 witness: a sharp component whose content has two stroke-width attributes.
C9_Witness ==
  /\ gen.phase = "generated" /\ gen.style = "sharp"
  /\ Cardinality(StrokeIdx) = 2
  /\ \A i \in StrokeIdx : gen.svelte.body[i].value = "{sw}" /\ gen.react.body[i].value = "{sw}"

OutPcs == <<"ontology", "svg", "react", "svelte", "sprite", "metadata", "done">>

\* The run at hand has run the stage.
After(stage) == outs.pc # "off" /\ IndexOf(OutPcs, outs.pc) > IndexOf(OutPcs, stage)

\* The records of a style, as positions of the manifest.
RecordsOf(style) == {i \in DOMAIN outs.manifest : outs.manifest[i].style = style}

\* UTF-16 code units of the characters of names.
CodeUnitOf ==
  [c \in WordChars \cup {"-"} |->
     IF c = "-" THEN 45
     ELSE IF c = "_" THEN 95
     ELSE IF c \in Range(Digits) THEN 47 + IndexOf(Digits, c)
     ELSE IF c \in Range(Uppers) THEN 64 + IndexOf(Uppers, c)
     ELSE 96 + IndexOf(Lowers, c)]

\* a < b in the lexicographic order of code units.
CodeUnitLess(a, b) ==
  CompareKeys([i \in DOMAIN a |-> CodeUnitOf[a[i]]], [i \in DOMAIN b |-> CodeUnitOf[b[i]]], 1) < 0

\* Every name of the manifest is in kebab-case: lower-case letters, digits, hyphens.
KebabNames ==
  \A i \in DOMAIN outs.manifest : \A k \in DOMAIN outs.manifest[i].name :
    outs.manifest[i].name[k] \in Range(Lowers) \cup Range(Digits) \cup {"-"}

\* C11 (as claimed): any two manifest records with distinct icon names get
\* distinct PascalCase identifiers from toPascalCase.
C11_PascalCaseUniquePerName ==
  After("react") =>
    \A i, j \in DOMAIN outs.manifest :
      outs.manifest[i].name # outs.manifest[j].name =>
        outs.react.allEntries[i].pascalName # outs.react.allEntries[j].pascalName

\* The root barrel has one export per manifest record, PascalCase(name)
\* followed by PascalCase(style), from the record's component file, and no
\* two exports have the same name.
RootBarrelOk(barrel) ==
  /\ Len(barrel) = Len(outs.manifest)
  /\ \A i \in DOMAIN outs.manifest : \E k \in DOMAIN barrel :
       /\ barrel[k].export = toPascalCase(outs.manifest[i].name)
                               \o toPascalCase(StyleText(outs.manifest[i].style))
       /\ barrel[k].style = outs.manifest[i].style
       /\ barrel[k].file = toPascalCase(outs.manifest[i].name)
  /\ \A k, l \in DOMAIN barrel : k # l => barrel[k].export # barrel[l].export

\* C12 (as claimed): in the root barrel of each framework there is one export
\* per manifest record, named PascalCase(name) + PascalCase(style), and the
\* exported names are pairwise distinct.
C12_RootBarrelSymbolsDistinct ==
  /\ After("react") => RootBarrelOk(outs.react.root)
  /\ After("svelte") => RootBarrelOk(outs.svelte.root)

\* The barrels of a framework: one per style of the manifest, each listing the
\* derived name of every record of its style, none twice, in ascending order.
StyleBarrelsOk(barrels) ==
  /\ DOMAIN barrels = {outs.manifest[i].style : i \in DOMAIN outs.manifest}
  /\ \A st \in DOMAIN barrels :
       /\ {barrels[st][k].export : k \in DOMAIN barrels[st]}
            = {toPascalCase(outs.manifest[i].name) : i \in RecordsOf(st)}
       /\ \A k, l \in DOMAIN barrels[st] :
            k < l => /\ barrels[st][k].export # barrels[st][l].export
                     /\ localeCompare(barrels[st][k].export, barrels[st][l].export) <= 0

\* C13 (as claimed): each per-style barrel lists every component of its style
\* exactly once in ascending order of derived name, and the React declaration
\* file declares the symbols of the React root barrel, in the barrel's order.
C13_BarrelsSortedAndComplete ==
  /\ After("react") =>
       /\ StyleBarrelsOk(outs.react.barrels)
       /\ outs.react.dts = [k \in DOMAIN outs.react.root |-> outs.react.root[k].export]
  /\ After("svelte") => StyleBarrelsOk(outs.svelte.barrels)

\* C14: the sprite has one symbol per manifest record, its id the record's
\* name, a hyphen and its style; the ids are pairwise distinct (the (style,
\* name) pairs of a manifest read from a source tree are) and ascending in the
\* order of localeCompare, which for kebab-case names is the lexicographic
\* order of code units, whatever the order of the manifest.
C14_SpriteSymbolsSorted ==
  After("sprite") =>
    /\ Len(outs.sprite) = Len(outs.manifest)
    /\ \A i \in DOMAIN outs.manifest : \E k \in DOMAIN outs.sprite :
         /\ outs.sprite[k].id = outs.manifest[i].name \o <<"-">> \o StyleText(outs.manifest[i].style)
         /\ outs.sprite[k].innerSvg = outs.manifest[i]
    /\ \A k, l \in DOMAIN outs.sprite :
         k < l => /\ outs.sprite[k].id # outs.sprite[l].id
                  /\ localeCompare(outs.sprite[k].id, outs.sprite[l].id) < 0
                  /\ KebabNames => CodeUnitLess(outs.sprite[k].id, outs.sprite[l].id)

\* C14 witness: three records whose manifest order is the reverse of the
\* sprite's order.
C14_Witness ==
  /\ After("sprite") /\ Len(outs.sprite) = 3 /\ KebabNames
  /\ \A i \in 1..3 : outs.sprite[i].innerSvg = outs.manifest[4 - i]

\* C15: a second full run on the same source tree and ontology file writes
\* the same sprite and the same metadata document as the first, also when it
\* reads the files of a style directory in another order.
C15_RerunSameSpriteAndMetadata ==
  outs.pc # "off" /\ outs.run = 2 =>
    /\ After("sprite") => outs.sprite = outs.first.sprite
    /\ After("metadata") => outs.metadata = outs.first.metadata

\* C15 witness: the second run has ended after reading the files in another
\* order than the first, its manifest holding several names.
C15_Witness ==
  /\ outs.pc = "done" /\ outs.run = 2 /\ outs.reordered
  /\ Len(outs.metadata.icons) >= 2 /\ Len(outs.sprite) = 3

RECURSIVE SumOfStyles(_, _)
\* The lengths of the styles lists of the first n entries, added up.
SumOfStyles(entries, n) ==
  IF n = 0 THEN 0 ELSE Len(entries[n].styles) + SumOfStyles(entries, n - 1)

ManifestNames == {outs.manifest[i].name : i \in DOMAIN outs.manifest}

\* C16: in the metadata document totalCount is the number of manifest
\* records, icons has one entry per distinct icon name, and the lengths of the
\* entries' styles lists add up to totalCount.
C16_TotalCountIsVariantCount ==
  After("metadata") =>
    /\ outs.metadata.totalCount = Len(outs.manifest)
    /\ Len(outs.metadata.icons) = Cardinality(ManifestNames)
    /\ SumOfStyles(outs.metadata.icons, Len(outs.metadata.icons)) = outs.metadata.totalCount

\* C16 witness: a name with records in two styles, so that the two counts differ.
C16_Witness ==
  /\ After("metadata")
  /\ outs.metadata.totalCount = 3 /\ Len(outs.metadata.icons) = 2
  /\ \E k \in DOMAIN outs.metadata.icons : Len(outs.metadata.icons[k].styles) = 2

\* The category list of src/icons.json, empty when the file or the list is absent.
FileCategories ==
  IF outs.ontFile.exists /\ outs.ontFile.categories.has THEN outs.ontFile.categories.v ELSE <<>>

\* C17: the metadata document has the keys icons, categories, totalCount and
\* styles; icons has one entry per distinct icon name, ascending by name (in
\* the order of localeCompare, for kebab-case names the order of code units);
\* an entry's styles are exactly the styles in which its name has a manifest
\* record, each once; categories is the ontology's list as it is; styles is
\* the fixed list of styles.
C17_MetadataShape ==
  After("metadata") =>
    /\ DOMAIN outs.metadata = {"icons", "categories", "totalCount", "styles"}
    /\ {outs.metadata.icons[k].name : k \in DOMAIN outs.metadata.icons} = ManifestNames
    /\ \A k, l \in DOMAIN outs.metadata.icons :
         k < l => /\ localeCompare(outs.metadata.icons[k].name, outs.metadata.icons[l].name) < 0
                  /\ KebabNames => CodeUnitLess(outs.metadata.icons[k].name,
                                                outs.metadata.icons[l].name)
    /\ \A k \in DOMAIN outs.metadata.icons :
         LET e == outs.metadata.icons[k]
         IN /\ Range(e.styles) = {outs.manifest[i].style :
                                    i \in {j \in DOMAIN outs.manifest : outs.manifest[j].name = e.name}}
            /\ Len(e.styles) = Cardinality(Range(e.styles))
    /\ outs.metadata.categories = FileCategories
    /\ outs.metadata.styles = <<"outline", "solid", "duotone", "sharp">>

\* C17 witness: an ontology with two categories not in alphabetical order and
\* a manifest whose first name is not the first entry of icons.
C17_Witness ==
  /\ After("metadata")
  /\ Len(outs.metadata.categories) = 2
  /\ localeCompare(outs.metadata.categories[1], outs.metadata.categories[2]) > 0
  /\ Len(outs.metadata.icons) = 3
  /\ outs.metadata.icons[1].name # outs.manifest[1].name

\* The entry src/icons.json has for a name, if the file exists and has one.
FileHasEntry(name) ==
  outs.ontFile.exists /\ outs.ontFile.icons.has /\ name \in DOMAIN outs.ontFile.icons.v

\* A text field the file supplies for the name: present and not empty.
SuppliesText(name, field) ==
  /\ FileHasEntry(name)
  /\ outs.ontFile.icons.v[name][field].has
  /\ outs.ontFile.icons.v[name][field].v # <<>>

\* The tags the file supplies for the name: present (an empty list is a list).
SuppliesTags(name) == FileHasEntry(name) /\ outs.ontFile.icons.v[name].tags.has

\* C18: each of label, description, category and tags of an icon entry is the
\* ontology's value when the ontology supplies one (for the three texts: a
\* non-empty one) and its own default otherwise, whatever the other three
\* are: the name with its first letter in upper case, the empty text,
\* "Uncategorized", the empty list. With src/icons.json absent every entry
\* has the four defaults.
C18_FallbackPerField ==
  After("metadata") =>
    \A k \in DOMAIN outs.metadata.icons :
      LET e == outs.metadata.icons[k]
          n == e.name
      IN /\ e.label = (IF SuppliesText(n, "label") THEN outs.ontFile.icons.v[n].label.v
                       ELSE <<Upper(n[1])>> \o Tail(n))
         /\ e.description = (IF SuppliesText(n, "description")
                               THEN outs.ontFile.icons.v[n].description.v ELSE <<>>)
         /\ e.category = (IF SuppliesText(n, "category") THEN outs.ontFile.icons.v[n].category.v
                          ELSE <<"U", "n", "c", "a", "t", "e", "g", "o", "r", "i", "z", "e", "d">>)
         /\ e.tags = (IF SuppliesTags(n) THEN outs.ontFile.icons.v[n].tags.v ELSE <<>>)
         /\ ~outs.ontFile.exists =>
              /\ e.label = <<Upper(n[1])>> \o Tail(n) /\ e.description = <<>>
              /\ e.category = <<"U", "n", "c", "a", "t", "e", "g", "o", "r", "i", "z", "e", "d">>
              /\ e.tags = <<>>

\* C18 witness: the ontology supplies the label and the tags of an icon and
\* neither its description nor its category.
C18_Witness ==
  /\ After("metadata")
  /\ \E k \in DOMAIN outs.metadata.icons :
       LET n == outs.metadata.icons[k].name
       IN /\ SuppliesText(n, "label") /\ SuppliesTags(n)
          /\ ~SuppliesText(n, "description") /\ ~SuppliesText(n, "category")
          /\ outs.metadata.icons[k].label = <<"B", "e", "e">>
          /\ outs.metadata.icons[k].category[1] = "U"

\* C19 (as claimed): the metadata document has the top-level keys icons,
\* categories and total, total being the count of icons.
C19_MetadataHasTotal ==
  After("metadata") =>
    /\ {"icons", "categories", "total"} \subseteq DOMAIN outs.metadata
    /\ outs.metadata["total"] = Len(outs.manifest)

\* C20 (as claimed): a failed output write in any stage, stageSvg included,
\* ends the run at once: the process has ended with the error and no stage
\* after the failing one has run.
C20_IoErrorAbortsRun ==
  (manifest.defined /\ ioFailed) => (pc = "crashed" /\ ran[Len(ran)] = "svg")

\* C21 (as claimed): with src/icons.json absent nothing fails: loadOntology
\* gives the empty ontology, main() returns, and with --watch the watchers are
\* installed and the process stays alive waiting for changes.
C21_AbsentOntologyNeverFails ==
  ontFile = "absent" =>
    /\ ontology \in {"unset", "empty"}
    /\ (running = 0 /\ pc # "watch") =>
         IF flag("--watch") THEN pc = "idle" /\ watching ELSE pc = "exit"

\* The React (JSX) spelling of each attribute name of the inner content.
CamelCaseOf ==
  [n \in AttrNames |->
     CASE n = "stroke-width"     -> "strokeWidth"
       [] n = "stroke-linecap"   -> "strokeLinecap"
       [] n = "fill-rule"        -> "fillRule"
       [] n = "stroke-dasharray" -> "strokeDasharray"]

\* C23 (as claimed): in the generated React component every hyphenated
\* attribute name of the inner content, stroke-dasharray included, is in its
\* camelCase form, the attributes staying in document order.
C23_EveryHyphenatedAttributeCamelCased ==
  Generated =>
    /\ Len(gen.react.body) = Len(gen.inner)
    /\ \A i \in DOMAIN gen.inner :
         gen.react.body[i].name = CamelCaseOf[gen.inner[i].name]

ConsumerStages == {"react", "svelte", "sprite", "metadata", "demo"}

\* C27 (as claimed): whatever the flags, in the first run and in every
\* rebuild, a consumer stage that main() invokes is given a manifest that
\* stageSvg produced earlier in the same main() call, never undefined.
C27_NoStageWithUndefinedManifest ==
  \A i \in DOMAIN ran :
    ran[i] \in ConsumerStages =>
      /\ manifest.defined
      /\ \E j \in 1..(i - 1) : ran[j] = "svg"

\* The optimizer result is one well-formed root element.
WellFormedRoot ==
  \/ xml.head \in {OpenTag, OpenTagAttr} /\ xml.foot \in {ClosingTag, ClosingTag \o <<"\n">>}
  \/ xml.head = SelfClosed /\ xml.body = <<>> /\ xml.foot = <<>>

\* C22 (as claimed): for an optimizer result that is one well-formed root
\* element, the record's inner content is the trimmed text between the root's
\* opening and closing tags (so without the wrapping element) and is not empty.
C22_InnerContentTrimmedAndNonEmpty ==
  (xml.phase = "pushed" /\ WellFormedRoot) =>
    /\ xml.record.innerSvg = trim(xml.body)
    /\ xml.record.innerSvg # <<>>

\* The optimizer result is empty, has no '>', or has no closing root tag.
Degenerate ==
  \/ xml.optimizedSvg = <<>>
  \/ ">" \notin Range(xml.optimizedSvg)
  \/ xml.foot = <<>> /\ xml.head # SelfClosed

\* C25 (as claimed): getSvgInner returns the empty string for a degenerate
\* optimizer result (empty, without '>', or without a closing root tag).
C25_DegenerateGivesEmpty ==
  (xml.phase \in {"sliced", "pushed"} /\ Degenerate) => xml.innerSvg = <<>>

\* C30 (as claimed): the script at load and the popstate handler leave the
\* session history as the navigation itself produced it: the same number of
\* entries and the same position.
C30_HandlersDoNotStackHistory ==
  (page.phase = "ready" /\ page.after \in {"load", "popstate"}) =>
    /\ Len(page.entries) = page.nav.len
    /\ page.idx = page.nav.idx

RunPcs == <<"ontology", "svg", "react", "svelte", "sprite", "metadata", "demo", "done">>

\* The run is past the stage: its result is there.
RunAfter(stage) == IndexOf(RunPcs, runs.pc) > IndexOf(RunPcs, stage)

\* The styles metadata.icons gives for each name.
StylesByName(doc) == {<<doc.icons[i].name, doc.icons[i].styles>> : i \in DOMAIN doc.icons}

\* C24: two runs over the same source tree that differ in the ontology only
\* (absent, present, with or without an unknown category) give the same
\* manifest, the same output files, components, barrels and sprite, and the
\* same metadata totalCount and per-icon styles; the ontology warnings (file
\* not found, unknown category) stop nothing: the run completes.
C24_OntologyOnlyDescriptive ==
  (runs.pc = "done" /\ runs.edit = "ontology") =>
    /\ runs.manifest = runs.prev.manifest
    /\ runs.files = runs.prev.files
    /\ runs.react = runs.prev.react
    /\ runs.svelte = runs.prev.svelte
    /\ runs.sprite = runs.prev.sprite
    /\ runs.metadata.totalCount = runs.prev.metadata.totalCount
    /\ StylesByName(runs.metadata) = StylesByName(runs.prev.metadata)
    /\ Len(runs.metadata.icons) = Len(runs.prev.metadata.icons)

C24_Witness ==
  /\ runs.pc = "done" /\ runs.edit = "ontology"
  /\ ~runs.prev.ontFile.exists
  /\ runs.warnings.unknown = {<<"b">>}
  /\ Len(runs.manifest) = 2
  /\ \E i \in DOMAIN runs.manifest : runs.manifest[i].name = <<"b">>
  /\ runs.metadata # runs.prev.metadata

\* C26: the consumer stages leave the manifest as stageSvg returned it, its
\* records, their order and their fields, so every stage of a run sees the same
\* manifest; and the manifest of a rebuild is built anew from the files read,
\* holding nothing of the previous one.
C26_ConsumersLeaveManifestAlone ==
  RunAfter("svg") =>
    /\ runs.manifest = runs.returned
    /\ runs.manifest = [i \in DOMAIN runs.list |-> Identity(runs.list[i])]

C26_Witness ==
  /\ runs.pc = "done" /\ runs.run = 2 /\ runs.edit = "tree"
  /\ Len(runs.manifest) = 2
  /\ runs.manifest # runs.prev.manifest
  /\ \E i \in DOMAIN runs.sprite : runs.sprite[i].innerSvg # runs.manifest[i]

PerIconKinds == {"svg", "react", "svelte"}

\* The per-icon files of a manifest: the optimized SVG and the two components
\* of each record.
PerIconPaths(items) ==
  UNION {{Path("svg", items[i].style, items[i].name),
          ComponentPath("react", items[i]),
          ComponentPath("svelte", items[i])} : i \in DOMAIN items}

\* C28 (as claimed): after any sequence of full runs the per-icon files of the
\* output tree are exactly those of the latest manifest.
C28_NoStaleIconFiles ==
  runs.pc = "done" =>
    {p \in DOMAIN runs.files : p.kind \in PerIconKinds} = PerIconPaths(runs.manifest)

\* A change event of an .svg file or of the ontology file waits for the thread.
ChangePending == \E i \in DOMAIN pending : pending[i] \in {"svg", "ont"}

\* A file-system change of an .svg file or of the ontology file.
ChangeArrives == FsSvgChange \/ FsOntChange

\* main(true) has just been called by the timer, with no change event waiting.
RebuildStarts == pc = "ontology" /\ rebuild /\ ~ChangePending

\* C29: no change is lost in watch mode: when a change event of an .svg file
\* or of the ontology file arrives, at any time (a timer pending, a rebuild in
\* flight), and change events then stop, a rebuild starts after that event,
\* unless the process has ended with an error in between.
C29_NoChangeLost ==
  <>[][~ChangeArrives]_vars => (ChangePending ~> (RebuildStarts \/ pc = "crashed"))

\* A second rebuild starts, every event having been served.
C29_Witness ==
  /\ args = {"--watch"}
  /\ pc = "ontology" /\ rebuild
  /\ icons # <<>>
  /\ pending = <<>> /\ timers = <<>>


====
